---- MODULE Spec2Model ----
(***************************************************************************)
(* Model of the multi-platform publish pipeline of server.js:              *)
(* app.post('/api/publish-post') together with the mock YouTube connection *)
(* handlers that share mockState with it.  The async handler is split at   *)
(* its awaits: one action issues a remote call (or arms a timer), the next *)
(* one consumes the response (or the timer firing).                        *)
(*                                                                         *)
(* The module also covers the delete endpoint of server.js and the React   *)
(* client: App's connection status, connection details and post list, the  *)
(* handlers of ConnectionsView and the composer CreatePostView.  Each part  *)
(* has its own next-state relation over the same variables.                *)
(***************************************************************************)
EXTENDS Integers, Sequences, FiniteSets, TLC

\* ---------------------------------------------------------------- bounds
MaxPlatforms == 3
MaxFairPlatforms == 2
MaxDeleteRequests == 2
MaxDeleteRuns == 1
MaxPublishRuns == 2

\* ------------------------------------------------------ program constants
MaxAttempts == 20

PlatformTags == {"Facebook", "Instagram", "YouTube", "Other"}
MediaKinds == {"dataImage", "httpsUrl", "neither"}

ReasonNoConnection == "Connection details not provided."
ReasonFbPhotoError == "Graph API post error"
ReasonFbVideoError == "Graph API video post error"
ReasonFbBadMedia == "A valid image or video was not provided for the Facebook post."
ReasonIgDependency == "To post an image to Instagram, you must also select Facebook."
ReasonIgBadMedia == "No valid media URL for Instagram."
ReasonIgContainerError == "IG container creation failed"
ReasonIgStatusError == "IG container status check failed"
ReasonIgProcessingFailed == "Instagram media container failed to process."
ReasonIgTimedOut == "Instagram media container processing timed out."
ReasonIgPublishError == "IG publish failed"
ReasonNotConnected == "Not connected."
ReasonThrown == "fetch or json rejected"

\* Outcomes of one awaited `fetch(...)` + `.json()` pair.
CallOutcomes == {"ok", "errorBody", "throw"}
\* Outcomes of the full_picture follow-up fetch.
PictureOutcomes == {"url", "noField", "throw"}
\* Outcomes of one container status poll: a status_code, an error body, or the
\* awaited call rejecting.  IN_PROGRESS stands for every status_code that is
\* neither FINISHED nor ERROR; the loop treats them all alike.
StatusOutcomes == {"IN_PROGRESS", "FINISHED", "ERROR", "errorBody", "throw"}

VARIABLES
    mockState,          \* mockState.YouTube.connected
    pc,                 \* position of the publish handler
    platforms,          \* req.body.platforms
    media,              \* classification of req.body.imageUrl
    facebook,           \* [pageId, pageAccessToken] presence in req.body.facebook
    instagram,          \* igUserId presence in req.body.instagram
    orderedPlatforms,
    idx,                \* position of the for..of loop in orderedPlatforms
    publishedTo,
    failedToPublish,
    facebookPostId,
    facebookPhotoUrl,
    containerStatus,
    attempts,
    response,           \* sequence of HTTP responses sent for the request
    inflight,           \* remote call awaited right now, or "none"
    fbCalled,           \* history: some Facebook remote call was issued in this request
    igCalled,           \* history: some Instagram remote call was issued in this request
    iterCalls,          \* history: remote calls issued in the current loop iteration
    fbAttempt,          \* history: outcomes of the latest Facebook upload and full_picture fetch
    container,          \* history: polls, waits and publishes of the latest media container
    confirmed,          \* history: platforms whose publish call came back without an error
    newPost,            \* the Post built after the loop, sent when the timer fires
    aborted,            \* the caller has closed the connection of the request
    delPc,              \* app.delete('/api/post/:postId'): "idle" or awaiting its fetch
    postId,             \* req.params.postId of the delete request, a string of characters
    pageAccessToken,    \* req.body.pageAccessToken of the delete request is present
    deletedOnPlatform,  \* the posts the platform has deleted
    deleteIssued,       \* history: ids a remote DELETE was issued for
    deleteAnswers,      \* history: answers of the delete requests, with the platform's report
    connections,        \* App.tsx: the client's ConnectionStatus
    connectionDetails,  \* App.tsx: which details (tokens) the client holds
    authPopup,          \* ConnectionsView: the mock login popup and its message
    assets,             \* CreatePostView: the media assets of the composer
    selectedAssets,     \* CreatePostView: ids ticked for the bulk actions
    isBulkPublishing,   \* CreatePostView: a bulk publish is running
    bulkClosure,        \* the render handleBulkPublish was created in
    bulkQueue,          \* ids the bulk loop has still to visit
    publishRuns,        \* handlePublish invocations suspended at an await
    removalTimers,      \* assets whose 2 s removal timer is armed
    posts,              \* App.tsx: the dashboard's post list
    globalError,        \* App.tsx: the global error message, or NoError for null
    startup,            \* App.tsx: mount effects whose asynchronous answer is still due
    deleteRuns          \* deletePost / deletePosts invocations awaiting the remote deletion

vars == <<mockState, pc, platforms, media, facebook, instagram, orderedPlatforms, idx,
          publishedTo, failedToPublish, facebookPostId, facebookPhotoUrl, containerStatus,
          attempts, response, inflight, fbCalled, igCalled, iterCalls, fbAttempt, container,
          confirmed, newPost, aborted, delPc, postId, pageAccessToken, deletedOnPlatform,
          deleteIssued, deleteAnswers,
          connections, connectionDetails, authPopup, assets, selectedAssets,
          isBulkPublishing, bulkClosure, bulkQueue, publishRuns, removalTimers,
          posts, globalError, startup, deleteRuns>>

\* ------------------------------------------------------------ pure helpers
\* `[...platforms].sort((a) => a === 'Facebook' ? -1 : 1)`: the comparator
\* looks at its first argument only.
UnsortedCompare(a, b) == 1
Compare(a, b) == IF a = "Facebook" THEN -1 ELSE 1

Reverse(s) == [i \in 1..Len(s) |-> s[Len(s) + 1 - i]]

\* Array.prototype.sort of Node (V8 TimSort; arrays shorter than 64 elements are
\* one run extended by binary insertion).  CountRun is CountAndMakeRun: the
\* length of the initial run, descending iff comparefn(a[1], a[0]) < 0.
RECURSIVE ExtendRun(_, _, _)
ExtendRun(s, i, descending) ==
    IF i > Len(s) THEN Len(s)
    ELSE LET order == Compare(s[i], s[i - 1])
         IN IF (descending /\ order >= 0) \/ (~descending /\ order < 0)
            THEN i - 1
            ELSE ExtendRun(s, i + 1, descending)

RunIsDescending(s) == Len(s) >= 2 /\ Compare(s[2], s[1]) < 0

CountRun(s) == IF Len(s) < 2 THEN Len(s) ELSE ExtendRun(s, 3, RunIsDescending(s))

MakeRun(s) ==
    LET n == CountRun(s)
    IN IF RunIsDescending(s)
       THEN Reverse(SubSeq(s, 1, n)) \o SubSeq(s, n + 1, Len(s))
       ELSE s

\* Binary search of the insertion point of pivot in the sorted prefix s[1..hi-1]
\* (left and right are 0-based as in the engine).
RECURSIVE InsertionPoint(_, _, _, _)
InsertionPoint(s, pivot, left, right) ==
    IF left >= right THEN left
    ELSE LET mid == left + ((right - left) \div 2)
         IN IF Compare(pivot, s[mid + 1]) < 0
            THEN InsertionPoint(s, pivot, left, mid)
            ELSE InsertionPoint(s, pivot, mid + 1, right)

RECURSIVE BinaryInsertionSort(_, _)
BinaryInsertionSort(s, start) ==
    IF start > Len(s) THEN s
    ELSE LET pivot == s[start]
             p == InsertionPoint(s, pivot, 0, start - 1)
             moved == SubSeq(s, 1, p) \o <<pivot>> \o SubSeq(s, p + 1, start - 1)
                      \o SubSeq(s, start + 1, Len(s))
         IN BinaryInsertionSort(moved, start + 1)

SortPlatforms(s) == BinaryInsertionSort(MakeRun(s), CountRun(s) + 1)

\* All platform lists of a request, up to the bound.
RECURSIVE SeqsUpTo(_, _)
SeqsUpTo(S, n) ==
    IF n = 0 THEN {<<>>}
    ELSE LET shorter == SeqsUpTo(S, n - 1)
         IN shorter \cup {Append(s, x) : s \in {t \in shorter : Len(t) = n - 1}, x \in S}

PlatformLists == SeqsUpTo(PlatformTags, MaxPlatforms)
ShortPlatformLists == SeqsUpTo(PlatformTags, MaxFairPlatforms)

NoFbAttempt == [upload |-> "none", picture |-> "none", recorded |-> "none"]
NoContainer == [created |-> FALSE, polls |-> 0, waits |-> 0, finished |-> FALSE,
                failed |-> FALSE, publishes |-> 0, onlyInProgress |-> TRUE,
                errorAt |-> 0, reason |-> "none", url |-> "none"]
NoPost == [id |-> "null", platforms |-> <<>>]
NewContainer == [NoContainer EXCEPT !.created = TRUE, !.reason = "open"]

\* ------------------------------------------------------------ client state
ClientPlatforms == {"Facebook", "Instagram", "YouTube"}
ComposerAssets == {"a1", "a2"}
\* useState<ConnectionStatus>: every platform starts disconnected
NotConnected == [p \in ClientPlatforms |-> FALSE]
\* useState<ConnectionDetails>({}): no Facebook and no Instagram details
NoDetails == [facebook |-> FALSE, instagram |-> FALSE]
NoPopup == [stage |-> "closed", platform |-> "none"]
\* An id that is not in the `assets` array.
NoAsset == [status |-> "absent", platforms |-> {}, file |-> FALSE]
\* useState<string | null>(null)
NoError == [kind |-> "null", failed |-> 0, of |-> 0]
NoClosure == [assets |-> [a \in ComposerAssets |-> NoAsset], connections |-> NotConnected]

\* ------------------------------------------------------------------- Init
Init ==
    /\ mockState = FALSE
    /\ pc = "idle"
    /\ platforms = <<>>
    /\ media = "neither"
    /\ facebook = [pageId |-> FALSE, pageAccessToken |-> FALSE]
    /\ instagram = FALSE
    /\ orderedPlatforms = <<>>
    /\ idx = 1
    /\ publishedTo = <<>>
    /\ failedToPublish = <<>>
    /\ facebookPostId = "null"
    /\ facebookPhotoUrl = FALSE
    /\ containerStatus = ""
    /\ attempts = 0
    /\ response = <<>>
    /\ inflight = "none"
    /\ fbCalled = FALSE
    /\ igCalled = FALSE
    /\ iterCalls = 0
    /\ fbAttempt = NoFbAttempt
    /\ container = NoContainer
    /\ confirmed = {}
    /\ newPost = NoPost
    /\ aborted = FALSE
    /\ delPc = "idle"
    /\ postId = <<>>
    /\ pageAccessToken = FALSE
    /\ deletedOnPlatform = {}
    /\ deleteIssued = {}
    /\ deleteAnswers = <<>>
    /\ connections = NotConnected
    /\ connectionDetails = NoDetails
    /\ authPopup = NoPopup
    /\ assets = [a \in ComposerAssets |-> NoAsset]
    /\ selectedAssets = {}
    /\ isBulkPublishing = FALSE
    /\ bulkClosure = NoClosure
    /\ bulkQueue = <<>>
    /\ publishRuns = {}
    /\ removalTimers = {}
    /\ posts = {}
    /\ globalError = NoError
    /\ startup = {"getConnections", "getLoginStatus", "loadInitialData"}
    /\ deleteRuns = {}


\* ------------------------------------------------- conditions of the handler
\* `!facebook?.pageId || !facebook?.pageAccessToken`
FbCredsMissing(fb) == ~fb.pageId \/ ~fb.pageAccessToken

\* `!instagram?.igUserId || !facebook?.pageAccessToken`
IgCredsMissingNoToken(ig, fb) == ~ig
IgCredsMissing(ig, fb) == ~ig \/ ~fb.pageAccessToken

\* `if (xData.error) throw ...`, or the awaited fetch/json rejecting
CallFailedOnlyThrow(outcome) == outcome = "throw"
CallFailed(outcome) == outcome # "ok"

\* `const isImage = imageUrl && imageUrl.startsWith('data:image')`
IsImageAnyMedia(m) == m # "neither"
IsImage(m) == m = "dataImage"

\* `const isVideo = imageUrl && imageUrl.startsWith('https://')`
IsVideoUnlessImage(m) == m # "dataImage"
IsVideo(m) == m = "httpsUrl"

\* `mediaUrlForIg = facebookPhotoUrl` for an image, `= imageUrl` for a video
MediaUrlForIg(m) == IF IsImage(m) THEN "facebookPhotoUrl" ELSE "imageUrl"

\* `if (mockState.YouTube.connected)`
YouTubeConnectedAlways(state) == TRUE
YouTubeConnected(state) == state

\* `id: facebookPostId || \`post_${Date.now()}\``
PostIdAlwaysLocal(fbId) == "local"
PostId(fbId) == IF fbId # "null" THEN fbId ELSE "local"

\* `failedToPublish.map(p => \`${p.platform} (${p.reason})\`).join(', ')`
RECURSIVE JoinEntries(_)
JoinEntries(entries) ==
    IF Len(entries) = 0 THEN ""
    ELSE IF Len(entries) = 1 THEN entries[1]
    ELSE entries[1] \o ", " \o JoinEntries(Tail(entries))

PublishErrorPrefix ==
    "Cannot publish to some platforms. Please check connections or permissions: "

FormatEntry(p) == p.platform \o " (" \o p.reason \o ")"

ErrorDetailsPlatformsOnly(failed) == JoinEntries([i \in 1..Len(failed) |-> failed[i].platform])
ErrorDetails(failed) == JoinEntries([i \in 1..Len(failed) |-> FormatEntry(failed[i])])

\* `if (!facebookPhotoUrl) throw ...` of the Instagram image path
PhotoUrlMissingNever(photoUrl) == FALSE
PhotoUrlMissing(photoUrl) == ~photoUrl

\* `while (containerStatus !== 'FINISHED' && attempts < 20)`
PollAgainOneMore(status, n) == status # "FINISHED" /\ n <= MaxAttempts
PollAgain(status, n) == status # "FINISHED" /\ n < MaxAttempts

\* `if (containerStatus === 'ERROR') throw ...`
IsErrorStatusNever(status) == FALSE
IsErrorStatus(status) == status = "ERROR"

\* `if (containerStatus !== 'FINISHED') throw ...` after the loop
NotFinishedNever(status) == FALSE
NotFinished(status) == status # "FINISHED"

\* `if (failedToPublish.length > 0) return res.status(400)...`
RespondsErrorOnlyIfNothingPublished(published, failed) == Len(failed) > 0 /\ Len(published) = 0
RespondsError(published, failed) == Len(failed) > 0

\* `continue` / leaving the catch block: the loop goes on with the next platform
IdxAfterFailureBreak(i, n) == n + 1
IdxAfterFailure(i, n) == i + 1

deleteVars == <<delPc, postId, pageAccessToken, deletedOnPlatform, deleteIssued,
                deleteAnswers>>

connectionVars == <<connections, connectionDetails, authPopup, startup>>
composerVars == <<assets, selectedAssets, isBulkPublishing, bulkClosure, bulkQueue,
                  publishRuns, removalTimers>>
dashboardVars == <<posts, globalError, deleteRuns>>
clientVars == <<connectionVars, composerVars, dashboardVars>>

\* What the publish and connection handlers never touch.
elsewhere == <<deleteVars, clientVars>>

requestVars == <<platforms, media, facebook, instagram, orderedPlatforms, aborted>>
igLoopVars == <<containerStatus, attempts>>

InLoop(tag) == pc = "loop" /\ idx <= Len(orderedPlatforms) /\ orderedPlatforms[idx] = tag

\* failedToPublish.push({ platform, reason }) and on to the next platform
RecordFailureWithRollback(platform, reason) ==
    /\ failedToPublish' = Append(failedToPublish, [platform |-> platform, reason |-> reason])
    /\ idx' = idx + 1
    /\ pc' = "loop"
    /\ inflight' = IF \E i \in DOMAIN publishedTo : publishedTo[i] = "Facebook"
                   THEN "fb_delete" ELSE "none"
    /\ UNCHANGED publishedTo

RecordFailure(platform, reason) ==
    /\ failedToPublish' = Append(failedToPublish, [platform |-> platform, reason |-> reason])
    /\ idx' = IdxAfterFailure(idx, Len(orderedPlatforms))
    /\ pc' = "loop"
    /\ inflight' = "none"
    /\ UNCHANGED publishedTo

\* publishedTo.push(platform) and on to the next platform
RecordPublished(platform) ==
    /\ publishedTo' = Append(publishedTo, platform)
    /\ idx' = idx + 1
    /\ pc' = "loop"
    /\ inflight' = "none"
    /\ UNCHANGED failedToPublish

\* `await fetch(...)`: the handler is suspended on a remote call
Issue(call) ==
    /\ inflight' = call
    /\ pc' = call
    /\ UNCHANGED <<idx, publishedTo, failedToPublish>>

\* The loop moves on: containerStatus, attempts and creationId are block-scoped
\* to the Instagram try block, so nothing of the previous iteration's container
\* is left when the next iteration (or the code after the loop) starts.
LeavePreviousIteration ==
    /\ containerStatus' = ""
    /\ attempts' = 0
    /\ container' = NoContainer

\* --------------------------------------------------------------- actions
\* app.post('/api/publish-post'): destructuring, required-field check, sort.
Accept(ps) ==
    /\ \E m \in MediaKinds, pageId \in BOOLEAN, token \in BOOLEAN,
          ig \in BOOLEAN, required \in BOOLEAN :
          /\ platforms' = ps
          /\ media' = m
          /\ facebook' = [pageId |-> pageId, pageAccessToken |-> token]
          /\ instagram' = ig
          /\ aborted' = FALSE
          /\ IF ~required
             THEN /\ response' = <<[status |-> 400, kind |-> "missingFields", hasPost |-> FALSE,
                                    id |-> "null", platforms |-> <<>>, failed |-> <<>>,
                                    message |-> ""]>>
                  /\ pc' = "done"
                  /\ orderedPlatforms' = <<>>
             ELSE /\ response' = <<>>
                  /\ pc' = "loop"
                  /\ orderedPlatforms' = SortPlatforms(ps)
    /\ UNCHANGED <<elsewhere, mockState, idx, publishedTo, failedToPublish, facebookPostId,
                   facebookPhotoUrl, igLoopVars, inflight, fbCalled, igCalled, iterCalls,
                   fbAttempt, container, confirmed, newPost>>

ReceiveRequest ==
    /\ pc = "idle"
    /\ \E ps \in PlatformLists : Accept(ps)

\* The same handler entry for requests of at most MaxFairPlatforms platforms.
ReceiveShortRequest ==
    /\ pc = "idle"
    /\ \E ps \in ShortPlatformLists : Accept(ps)

\* `if (platform === 'Facebook')` up to the first await.
FacebookStep ==
    /\ InLoop("Facebook")
    /\ IF FbCredsMissing(facebook)
       THEN /\ RecordFailure("Facebook", ReasonNoConnection)
            /\ iterCalls' = 0
            /\ UNCHANGED <<fbCalled, fbAttempt>>
       ELSE IF IsImage(media)
       THEN /\ Issue("fb_photos")
            /\ iterCalls' = 1
            /\ fbCalled' = TRUE
            /\ fbAttempt' = NoFbAttempt
       ELSE IF IsVideo(media)
       THEN /\ Issue("fb_videos")
            /\ iterCalls' = 1
            /\ fbCalled' = TRUE
            /\ fbAttempt' = NoFbAttempt
       ELSE /\ RecordFailure("Facebook", ReasonFbBadMedia)
            /\ iterCalls' = 0
            /\ fbAttempt' = [NoFbAttempt EXCEPT !.recorded = "failed"]
            /\ UNCHANGED fbCalled
    /\ LeavePreviousIteration
    /\ UNCHANGED <<elsewhere, mockState, requestVars, facebookPostId, facebookPhotoUrl, response,
                   igCalled, confirmed, newPost>>

\* Response of POST /{pageId}/photos; on success the full_picture fetch is issued.
FbPhotosResponse ==
    /\ pc = "fb_photos"
    /\ \E r \in CallOutcomes :
          IF CallFailed(r)
          THEN /\ RecordFailure("Facebook",
                                IF r = "throw" THEN ReasonThrown ELSE ReasonFbPhotoError)
               /\ fbAttempt' = [fbAttempt EXCEPT !.upload = r, !.recorded = "failed"]
               /\ UNCHANGED <<facebookPostId, iterCalls, confirmed>>
          ELSE /\ facebookPostId' = "post_id"
               /\ Issue("fb_full_picture")
               /\ iterCalls' = iterCalls + 1
               /\ fbAttempt' = [fbAttempt EXCEPT !.upload = r]
               /\ confirmed' = IF r = "ok" THEN confirmed \cup {"Facebook"} ELSE confirmed
    /\ UNCHANGED <<elsewhere, mockState, requestVars, facebookPhotoUrl, igLoopVars, response, fbCalled,
                   igCalled, container, newPost>>

\* Response of GET /{post_id}?fields=full_picture, then publishedTo.push.
FbFullPictureResponse ==
    /\ pc = "fb_full_picture"
    /\ \E r \in PictureOutcomes :
          /\ IF r = "throw"
             THEN /\ RecordFailure("Facebook", ReasonThrown)
                  /\ fbAttempt' = [fbAttempt EXCEPT !.picture = r, !.recorded = "failed"]
                  /\ UNCHANGED facebookPhotoUrl
             ELSE /\ RecordPublished("Facebook")
                  /\ fbAttempt' = [fbAttempt EXCEPT !.picture = r, !.recorded = "published"]
                  /\ facebookPhotoUrl' = IF r = "url" THEN TRUE ELSE facebookPhotoUrl
    /\ UNCHANGED <<elsewhere, mockState, requestVars, facebookPostId, igLoopVars, response, fbCalled,
                   igCalled, iterCalls, container, confirmed, newPost>>

\* Response of POST /{pageId}/videos.
FbVideosResponse ==
    /\ pc = "fb_videos"
    /\ \E r \in CallOutcomes :
          IF CallFailed(r)
          THEN /\ RecordFailure("Facebook",
                                IF r = "throw" THEN ReasonThrown ELSE ReasonFbVideoError)
               /\ fbAttempt' = [fbAttempt EXCEPT !.upload = r, !.recorded = "failed"]
               /\ UNCHANGED <<facebookPostId, confirmed>>
          ELSE /\ facebookPostId' = "video_id"
               /\ RecordPublished("Facebook")
               /\ fbAttempt' = [fbAttempt EXCEPT !.upload = r, !.recorded = "published"]
               /\ confirmed' = IF r = "ok" THEN confirmed \cup {"Facebook"} ELSE confirmed
    /\ UNCHANGED <<elsewhere, mockState, requestVars, facebookPhotoUrl, igLoopVars, response, fbCalled,
                   igCalled, iterCalls, container, newPost>>


\* Top of `while (containerStatus !== 'FINISHED' && attempts < 20)` and what
\* follows the loop: the next status poll, the timed-out throw, or media_publish.
LoopTop(status, n, c) ==
    IF PollAgain(status, n)
    THEN /\ Issue("ig_status")
         /\ container' = [c EXCEPT !.polls = @ + 1]
         /\ iterCalls' = iterCalls + 1
    ELSE IF NotFinished(status)
    THEN /\ RecordFailure("Instagram", ReasonIgTimedOut)
         /\ container' = [c EXCEPT !.failed = @ \/ status # "FINISHED", !.reason = ReasonIgTimedOut]
         /\ UNCHANGED iterCalls
    ELSE /\ Issue("ig_publish")
         /\ container' = [c EXCEPT !.failed = @ \/ status # "FINISHED", !.publishes = @ + 1]
         /\ iterCalls' = iterCalls + 1

\* `else if (platform === 'Instagram')` up to the container-create await.
InstagramStep ==
    /\ InLoop("Instagram")
    /\ IF IgCredsMissing(instagram, facebook)
       THEN /\ RecordFailure("Instagram", ReasonNoConnection)
            /\ iterCalls' = 0
            /\ UNCHANGED igCalled
       ELSE IF IsImage(media) /\ PhotoUrlMissing(facebookPhotoUrl)
       THEN /\ RecordFailure("Instagram", ReasonIgDependency)
            /\ iterCalls' = 0
            /\ UNCHANGED igCalled
       ELSE IF ~IsImage(media) /\ ~IsVideo(media)
       THEN /\ RecordFailure("Instagram", ReasonIgBadMedia)
            /\ iterCalls' = 0
            /\ UNCHANGED igCalled
       ELSE /\ Issue("ig_media")
            /\ iterCalls' = 1
            /\ igCalled' = TRUE
    /\ LeavePreviousIteration
    /\ UNCHANGED <<elsewhere, mockState, requestVars, facebookPostId, facebookPhotoUrl, response,
                   fbCalled, fbAttempt, confirmed, newPost>>

\* Response of POST /{igUserId}/media; on success the poll loop is entered.
IgMediaResponse ==
    /\ pc = "ig_media"
    /\ \E r \in CallOutcomes :
          IF CallFailed(r)
          THEN /\ RecordFailure("Instagram",
                                IF r = "throw" THEN ReasonThrown ELSE ReasonIgContainerError)
               /\ UNCHANGED <<igLoopVars, iterCalls, container>>
          ELSE /\ containerStatus' = ""
               /\ attempts' = 0
               /\ LoopTop("", 0, [NewContainer EXCEPT !.url = MediaUrlForIg(media)])
    /\ UNCHANGED <<elsewhere, mockState, requestVars, facebookPostId, facebookPhotoUrl, response,
                   fbCalled, igCalled, fbAttempt, confirmed, newPost>>

\* Response of GET /{creationId}?fields=status_code inside the poll loop.
IgStatusResponse ==
    /\ pc = "ig_status"
    /\ \E r \in StatusOutcomes :
          LET seen == [container EXCEPT
                          !.finished = @ \/ r = "FINISHED",
                          !.onlyInProgress = @ /\ r = "IN_PROGRESS",
                          !.errorAt = IF r = "ERROR" /\ @ = 0 THEN container.polls ELSE @]
          IN IF r \in {"errorBody", "throw"}
             THEN /\ RecordFailure("Instagram",
                                   IF r = "throw" THEN ReasonThrown ELSE ReasonIgStatusError)
                  /\ container' = [seen EXCEPT !.failed = TRUE,
                                               !.reason = ReasonIgStatusError]
                  /\ UNCHANGED <<igLoopVars, iterCalls>>
             ELSE /\ containerStatus' = r
                  /\ UNCHANGED attempts
                  /\ IF IsErrorStatus(r)
                     THEN /\ RecordFailure("Instagram", ReasonIgProcessingFailed)
                          /\ container' = [seen EXCEPT !.failed = TRUE,
                                                       !.reason = ReasonIgProcessingFailed]
                          /\ UNCHANGED iterCalls
                     ELSE IF r # "FINISHED"
                     THEN /\ pc' = "ig_wait"
                          /\ inflight' = "none"
                          /\ container' = [seen EXCEPT !.waits = @ + 1,
                                                       !.failed = @ \/ r = "ERROR"]
                          /\ UNCHANGED <<idx, publishedTo, failedToPublish, iterCalls>>
                     ELSE LoopTop(r, attempts, seen)
    /\ UNCHANGED <<elsewhere, mockState, requestVars, facebookPostId, facebookPhotoUrl, response,
                   fbCalled, igCalled, fbAttempt, confirmed, newPost>>

\* The 3 s timer of the poll loop fires: attempts++ and back to the loop test.
IgWaitFired ==
    /\ pc = "ig_wait"
    /\ attempts' = attempts + 1
    /\ LoopTop(containerStatus, attempts + 1, container)
    /\ UNCHANGED <<elsewhere, mockState, requestVars, facebookPostId, facebookPhotoUrl, containerStatus,
                   response, fbCalled, igCalled, fbAttempt, confirmed, newPost>>

\* Response of POST /{igUserId}/media_publish.
IgPublishResponse ==
    /\ pc = "ig_publish"
    /\ \E r \in CallOutcomes :
          IF CallFailed(r)
          THEN /\ RecordFailure("Instagram",
                                IF r = "throw" THEN ReasonThrown ELSE ReasonIgPublishError)
               /\ container' = [container EXCEPT !.reason = ReasonIgPublishError]
               /\ UNCHANGED confirmed
          ELSE /\ RecordPublished("Instagram")
               /\ container' = [container EXCEPT !.reason = "published"]
               /\ confirmed' = IF r = "ok" /\ container.finished
                               THEN confirmed \cup {"Instagram"} ELSE confirmed
    /\ UNCHANGED <<elsewhere, mockState, requestVars, facebookPostId, facebookPhotoUrl, igLoopVars,
                   response, fbCalled, igCalled, iterCalls, fbAttempt, newPost>>

\* `else if (platform === 'YouTube')`: mock platform, no remote call.
YouTubeStep ==
    /\ InLoop("YouTube")
    /\ IF YouTubeConnected(mockState)
       THEN RecordPublished("YouTube")
       ELSE RecordFailure("YouTube", ReasonNotConnected)
    /\ iterCalls' = 0
    /\ LeavePreviousIteration
    /\ UNCHANGED <<elsewhere, mockState, requestVars, facebookPostId, facebookPhotoUrl, response,
                   fbCalled, igCalled, fbAttempt, confirmed, newPost>>

\* A platform tag matched by none of the three branches: the iteration does nothing.
OtherStep ==
    /\ InLoop("Other")
    /\ idx' = idx + 1
    /\ iterCalls' = 0
    /\ LeavePreviousIteration
    /\ UNCHANGED <<elsewhere, mockState, pc, requestVars, publishedTo, failedToPublish, facebookPostId,
                   facebookPhotoUrl, response, inflight, fbCalled, igCalled, fbAttempt,
                   confirmed, newPost>>

\* `return res.status(400).json(...)`: the handler ends with the error response
PcAfterErrorFallsThrough == "timer"
PcAfterError == "done"

\* After the loop: the 400 aggregate error, or newPost and the response timer.
Aggregate ==
    /\ pc = "loop"
    /\ idx > Len(orderedPlatforms)
    /\ IF RespondsError(publishedTo, failedToPublish)
       THEN /\ response' = Append(response,
                                  [status |-> 400, kind |-> "publishError", hasPost |-> FALSE,
                                   id |-> "null", platforms |-> <<>>,
                                   failed |-> failedToPublish,
                                   message |-> PublishErrorPrefix \o
                                               ErrorDetails(failedToPublish)])
            /\ pc' = PcAfterError
            /\ UNCHANGED newPost
       ELSE /\ newPost' = [id |-> PostId(facebookPostId), platforms |-> publishedTo]
            /\ pc' = "timer"
            /\ UNCHANGED response
    /\ LeavePreviousIteration
    /\ iterCalls' = 0
    /\ UNCHANGED <<elsewhere, mockState, requestVars, idx, publishedTo, failedToPublish, facebookPostId,
                   facebookPhotoUrl, inflight, fbCalled, igCalled, fbAttempt, confirmed>>

\* The setTimeout callback: res.status(200).json(newPost).
SendPost ==
    /\ pc = "timer"
    /\ response' = Append(response,
                          [status |-> 200, kind |-> "post", hasPost |-> TRUE,
                           id |-> newPost.id, platforms |-> newPost.platforms, failed |-> <<>>,
                           message |-> ""])
    /\ pc' = "done"
    /\ UNCHANGED <<elsewhere, mockState, requestVars, idx, publishedTo, failedToPublish, facebookPostId,
                   facebookPhotoUrl, igLoopVars, inflight, fbCalled, igCalled, iterCalls,
                   fbAttempt, container, confirmed, newPost>>

\* The response is out and the handler has returned: its locals are gone and
\* the server waits for the next request.
RequestEnds ==
    /\ pc = "done"
    /\ pc' = "idle"
    /\ platforms' = <<>>
    /\ media' = "neither"
    /\ facebook' = [pageId |-> FALSE, pageAccessToken |-> FALSE]
    /\ instagram' = FALSE
    /\ orderedPlatforms' = <<>>
    /\ idx' = 1
    /\ publishedTo' = <<>>
    /\ failedToPublish' = <<>>
    /\ facebookPostId' = "null"
    /\ facebookPhotoUrl' = FALSE
    /\ containerStatus' = ""
    /\ attempts' = 0
    /\ response' = <<>>
    /\ inflight' = "none"
    /\ fbCalled' = FALSE
    /\ igCalled' = FALSE
    /\ iterCalls' = 0
    /\ fbAttempt' = NoFbAttempt
    /\ container' = NoContainer
    /\ confirmed' = {}
    /\ newPost' = NoPost
    /\ aborted' = FALSE
    /\ UNCHANGED <<elsewhere, mockState>>

requestState == <<pc, requestVars, idx, publishedTo, failedToPublish, facebookPostId,
                  facebookPhotoUrl, igLoopVars, response, inflight, fbCalled, igCalled,
                  iterCalls, fbAttempt, container, confirmed, newPost>>

\* app.post('/auth/:platform/callback'): the mock YouTube login; any platform
\* other than YouTube is answered 400 (Facebook stands for them).
MockAuthCallback ==
    /\ \E p \in {"YouTube", "Facebook"}, valid \in BOOLEAN :
          mockState' = IF p = "YouTube" /\ valid THEN TRUE ELSE mockState
    /\ UNCHANGED <<elsewhere, requestState>>

\* app.delete('/api/connections/:platform'): only YouTube changes mockState
\* (Facebook stands for the platforms that leave it alone).
DisconnectPlatform ==
    /\ \E p \in {"YouTube", "Facebook"} :
          mockState' = IF p = "YouTube" THEN FALSE ELSE mockState
    /\ UNCHANGED <<elsewhere, requestState>>

Next ==
    \/ ReceiveRequest
    \/ FacebookStep
    \/ FbPhotosResponse
    \/ FbFullPictureResponse
    \/ FbVideosResponse
    \/ InstagramStep
    \/ IgMediaResponse
    \/ IgStatusResponse
    \/ IgWaitFired
    \/ IgPublishResponse
    \/ YouTubeStep
    \/ OtherStep
    \/ Aggregate
    \/ SendPost
    \/ RequestEnds
    \/ MockAuthCallback
    \/ DisconnectPlatform

Spec == Init /\ [][Next]_vars

\* The steps of a publish request in progress.  Node's event loop runs every
\* continuation whose awaited call has returned and every timer that is due,
\* so a request that can take a step eventually takes one.
HandlerStep ==
    \/ FacebookStep
    \/ FbPhotosResponse
    \/ FbFullPictureResponse
    \/ FbVideosResponse
    \/ InstagramStep
    \/ IgMediaResponse
    \/ IgStatusResponse
    \/ IgWaitFired
    \/ IgPublishResponse
    \/ YouTubeStep
    \/ OtherStep
    \/ Aggregate
    \/ SendPost

NextFair ==
    \/ ReceiveShortRequest
    \/ HandlerStep
    \/ RequestEnds
    \/ MockAuthCallback
    \/ DisconnectPlatform

SpecFair == Init /\ [][NextFair]_vars /\ WF_vars(HandlerStep)

\* The caller gives up while the request sits in the Instagram poll loop: the
\* connection closes.  The handler registers no 'close' listener and passes no
\* AbortSignal to fetch, so nothing of the request but this flag changes.
CallerAborts ==
    /\ pc \in {"ig_status", "ig_wait"}
    /\ ~aborted
    /\ aborted' = TRUE
    /\ UNCHANGED <<elsewhere, mockState, pc, platforms, media, facebook, instagram, orderedPlatforms,
                   idx, publishedTo, failedToPublish, facebookPostId, facebookPhotoUrl,
                   igLoopVars, response, inflight, fbCalled, igCalled, iterCalls, fbAttempt,
                   container, confirmed, newPost>>

NextWithAbort ==
    \/ Next
    \/ CallerAborts

SpecWithAbort == Init /\ [][NextWithAbort]_vars

\* ------------------------------------------- app.delete('/api/post/:postId')
\* Post ids are strings of characters: the local ids of the publish handler
\* begin with 'post_', the ids Facebook assigns do not.
PostPrefix == <<"p", "o", "s", "t", "_">>

\* `postId.startsWith('post_')`
StartsWith(s, prefix) ==
    /\ Len(s) >= Len(prefix)
    /\ SubSeq(s, 1, Len(prefix)) = prefix

PostIds == { <<"p", "o", "s", "t", "_", "1">>,
             <<"p", "o", "s", "t">>,
             <<"1", "_", "2">>,
             <<"1", "_", "p", "o", "s", "t", "_">> }

\* What `await response.json()` of the Graph DELETE yields, or the await rejecting.
NoReport == [kind |-> "none", code |-> 0, subcode |-> 0]
GraphSuccess == [kind |-> "success", code |-> 0, subcode |-> 0]
GraphSuccessFalse == [kind |-> "successFalse", code |-> 0, subcode |-> 0]
GraphThrow == [kind |-> "throw", code |-> 0, subcode |-> 0]
GraphError(code, subcode) == [kind |-> "error", code |-> code, subcode |-> subcode]

\* A deleted post is reported as code 100 / subcode 33 (the object does not
\* exist); any call can also fail for the token (190) or at the transport.
PlatformReports(id) ==
    IF id \in deletedOnPlatform
    THEN {GraphError(100, 33), GraphError(190, 0), GraphThrow}
    ELSE {GraphSuccess, GraphSuccessFalse, GraphError(100, 33), GraphError(100, 0),
          GraphError(190, 33), GraphThrow}

\* `data.error.code === 100 && data.error.error_subcode === 33`
AlreadyDeletedNever(data) == FALSE
AlreadyDeleted(data) == data.code = 100 /\ data.subcode = 33

DeleteAnswer(id, status, success, data) ==
    deleteAnswers' = Append(deleteAnswers, [postId |-> id, status |-> status,
                                            success |-> success, report |-> data])

\* Entry of the handler: the two 400 answers, or the remote DELETE is issued.
DeleteReceive ==
    /\ delPc = "idle"
    /\ Len(deleteAnswers) < MaxDeleteRequests
    /\ \E id \in PostIds, token \in BOOLEAN :
          /\ postId' = id
          /\ pageAccessToken' = token
          /\ IF ~token
             THEN /\ DeleteAnswer(id, 400, FALSE, NoReport)
                  /\ UNCHANGED <<delPc, deleteIssued>>
             ELSE IF StartsWith(id, PostPrefix)
             THEN /\ DeleteAnswer(id, 400, FALSE, NoReport)
                  /\ UNCHANGED <<delPc, deleteIssued>>
             ELSE /\ delPc' = "fetch"
                  /\ deleteIssued' = deleteIssued \cup {id}
                  /\ UNCHANGED deleteAnswers
    /\ UNCHANGED <<deletedOnPlatform, mockState, requestState, clientVars>>

\* The Graph DELETE came back (or its await rejected): 200 or 500.
DeleteResponse ==
    /\ delPc = "fetch"
    /\ \E data \in PlatformReports(postId) :
          /\ deletedOnPlatform' = IF data.kind = "success"
                                  THEN deletedOnPlatform \cup {postId}
                                  ELSE deletedOnPlatform
          /\ IF data.kind = "throw"
             THEN DeleteAnswer(postId, 500, FALSE, data)
             ELSE IF data.kind = "error"
             THEN IF AlreadyDeleted(data)
                  THEN DeleteAnswer(postId, 200, TRUE, data)
                  ELSE DeleteAnswer(postId, 500, FALSE, data)
             ELSE IF data.kind = "successFalse"
             THEN DeleteAnswer(postId, 500, FALSE, data)
             ELSE DeleteAnswer(postId, 200, TRUE, data)
    /\ delPc' = "idle"
    /\ UNCHANGED <<postId, pageAccessToken, deleteIssued, mockState, requestState,
                   clientVars>>

NextDelete ==
    \/ DeleteReceive
    \/ DeleteResponse

SpecDelete == Init /\ [][NextDelete]_vars

TypeOK ==
    /\ mockState \in BOOLEAN
    /\ pc \in {"idle", "loop", "fb_photos", "fb_full_picture", "fb_videos", "ig_media",
               "ig_status", "ig_wait", "ig_publish", "timer", "done"}
    /\ idx \in 1..(Len(orderedPlatforms) + 1)
    /\ attempts \in 0..MaxAttempts
    /\ Len(response) <= 1
    /\ aborted \in BOOLEAN


\* ------------------------------------------------------------ properties
Range(s) == {s[i] : i \in DOMAIN s}
FacebookCalls == {"fb_photos", "fb_full_picture", "fb_videos"}
InstagramCalls == {"ig_media", "ig_status", "ig_publish"}
PublishAnswered == pc = "done" /\ Len(response) = 1 /\ response[1].kind # "missingFields"
Failed(p, reason) == \E i \in DOMAIN failedToPublish :
                         failedToPublish[i] = [platform |-> p, reason |-> reason]

\* C1 (as stated): when some platforms succeed and some fail, the response
\* carries a Post holding exactly the succeeded platforms together with the
\* error entries; an error without a Post occurs only when nothing succeeded.
C1_PartialPostReturned ==
    PublishAnswered =>
        /\ (Len(publishedTo) > 0 /\ Len(failedToPublish) > 0) =>
               /\ response[1].hasPost
               /\ response[1].platforms = publishedTo
               /\ response[1].failed = failedToPublish
        /\ (~response[1].hasPost) => Len(publishedTo) = 0

\* C1 (amended): as soon as one platform failed the response is the 400
\* aggregate error naming every failed platform and carries no Post, also when
\* other platforms succeeded; a Post (platforms = the succeeded ones) is sent
\* only when no platform failed.
C1_ErrorWithoutPostOnAnyFailure ==
    /\ PublishAnswered =>
           IF Len(failedToPublish) > 0
           THEN /\ response[1].status = 400
                /\ ~response[1].hasPost
                /\ response[1].failed = failedToPublish
           ELSE /\ response[1].status = 200
                /\ response[1].hasPost
                /\ response[1].platforms = publishedTo
    /\ pc = "timer" => Len(failedToPublish) = 0 /\ newPost.platforms = publishedTo

C1_Witness ==
    /\ PublishAnswered
    /\ Len(publishedTo) > 0
    /\ Len(failedToPublish) > 0
    /\ response[1].status = 400

\* C2: whatever the input order of the platforms list, every Facebook entry is
\* processed, and every Facebook remote call has returned, before the first
\* Instagram remote call is issued; the call in flight always belongs to the
\* one platform the loop is at.
C2_FacebookBeforeInstagram ==
    /\ \A i, j \in DOMAIN orderedPlatforms :
           (i < j /\ orderedPlatforms[j] = "Facebook") => orderedPlatforms[i] # "Instagram"
    /\ inflight \in FacebookCalls => ~igCalled /\ orderedPlatforms[idx] = "Facebook"
    /\ inflight \in InstagramCalls => orderedPlatforms[idx] = "Instagram"
    /\ igCalled => \A i \in DOMAIN orderedPlatforms :
                       orderedPlatforms[i] = "Facebook" => i < idx

C2_Witness ==
    /\ platforms = <<"Instagram", "YouTube", "Facebook">>
    /\ fbCalled
    /\ inflight = "ig_media"

\* C3 (as stated): every platform of a returned Post was requested and has a
\* publish call whose remote response came back without an error.
C3_OnlyRemotelyConfirmedPlatforms ==
    \A k \in DOMAIN response :
        response[k].hasPost =>
            \A i \in DOMAIN response[k].platforms :
                /\ response[k].platforms[i] \in Range(platforms)
                /\ response[k].platforms[i] \in confirmed

\* C3 (amended): every platform recorded as published, and so every platform
\* of a returned Post, was requested; Facebook and Instagram are among them
\* only with a publish call whose response came back without an error, while
\* the mock platform YouTube is recorded without any remote call.
C3_OnlyConfirmedFacebookInstagram ==
    /\ \A i \in DOMAIN publishedTo :
           /\ publishedTo[i] \in Range(platforms) \cap {"Facebook", "Instagram", "YouTube"}
           /\ publishedTo[i] \in {"Facebook", "Instagram"} => publishedTo[i] \in confirmed
    /\ \A k \in DOMAIN response : response[k].hasPost => response[k].platforms = publishedTo

C3_Witness ==
    /\ PublishAnswered
    /\ response[1].hasPost
    /\ {"Facebook", "Instagram", "YouTube"} \subseteq Range(response[1].platforms)

CountIn(s, t) == Cardinality({i \in DOMAIN s : s[i] = t})
CountFailed(t) == Cardinality({i \in DOMAIN failedToPublish : failedToPublish[i].platform = t})
CountProcessed(t) == Cardinality({i \in DOMAIN orderedPlatforms : i < idx /\ orderedPlatforms[i] = t})

\* C4: a platform's failure never ends the loop: each Facebook, Instagram and
\* YouTube entry the loop has passed has exactly one outcome of its own, and the
\* response is only built after the loop has passed every entry.
C4_FailureNeverStopsLoop ==
    /\ \A t \in {"Facebook", "Instagram", "YouTube"} :
           CountIn(publishedTo, t) + CountFailed(t) = CountProcessed(t)
    /\ pc \in {"timer", "done"} => idx = Len(orderedPlatforms) + 1

C4_Witness ==
    /\ PublishAnswered
    /\ Len(failedToPublish) >= 2
    /\ failedToPublish[1].platform = "Facebook"
    /\ failedToPublish[2].platform = "Instagram"
    /\ "YouTube" \in Range(publishedTo)

\* C5 (as stated): once the photo upload succeeded, any failure of the
\* full_picture fetch (missing field, error body or the call failing) leaves
\* Facebook recorded as published, and an Instagram image publish without the
\* photo URL issues no container-create call.
C5_FacebookPublishedDespitePictureFailure ==
    /\ (fbAttempt.upload = "ok" /\ fbAttempt.picture \in {"noField", "throw"}) =>
           fbAttempt.recorded = "published"
    /\ (media = "dataImage" /\ ~facebookPhotoUrl) => ~igCalled

\* C6: an image post with Instagram but without Facebook issues no Facebook and
\* no Instagram remote call at all, Instagram is never published, and its
\* failure is the dependency error whenever its credentials were provided.
C6_InstagramImageNeedsFacebook ==
    (media = "dataImage" /\ "Facebook" \notin Range(platforms)) =>
        /\ ~fbCalled
        /\ ~igCalled
        /\ "Instagram" \notin Range(publishedTo)
        /\ CountFailed("Instagram") = CountProcessed("Instagram")
        /\ \A i \in DOMAIN failedToPublish :
               failedToPublish[i].platform = "Instagram" =>
                   failedToPublish[i].reason =
                       IF instagram /\ facebook.pageAccessToken
                       THEN ReasonIgDependency ELSE ReasonNoConnection

C6_Witness ==
    /\ media = "dataImage"
    /\ "Facebook" \notin Range(platforms)
    /\ Failed("Instagram", ReasonIgDependency)
    /\ pc = "done"

HandlerStepAt(tag) == InLoop(tag) /\ (idx' # idx \/ pc' # pc)
ShortCircuits(tag) ==
    /\ failedToPublish' = Append(failedToPublish,
                                 [platform |-> tag, reason |-> ReasonNoConnection])
    /\ publishedTo' = publishedTo
    /\ inflight' = "none"
    /\ iterCalls' = 0
    /\ fbCalled' = fbCalled
    /\ igCalled' = igCalled

\* C7 (as stated): Facebook without pageId or pageAccessToken, and Instagram
\* without igUserId or without the Facebook credentials (pageId and
\* pageAccessToken), is recorded failed with 'Connection details not provided.'
\* and no remote call is issued for it.
C7_MissingCredentialsShortCircuit ==
    [][ /\ (HandlerStepAt("Facebook") /\ (~facebook.pageId \/ ~facebook.pageAccessToken))
            => ShortCircuits("Facebook")
        /\ (HandlerStepAt("Instagram")
              /\ (~instagram \/ ~facebook.pageId \/ ~facebook.pageAccessToken))
            => ShortCircuits("Instagram") ]_vars

\* C7 (amended): as stated, except that Instagram needs the igUserId and the
\* Facebook pageAccessToken only; a missing pageId does not short-circuit it.
C7_MissingTokenShortCircuit ==
    [][ /\ (HandlerStepAt("Facebook") /\ (~facebook.pageId \/ ~facebook.pageAccessToken))
            => ShortCircuits("Facebook")
        /\ (HandlerStepAt("Instagram") /\ (~instagram \/ ~facebook.pageAccessToken))
            => ShortCircuits("Instagram") ]_vars

C7_Witness ==
    /\ Failed("Facebook", ReasonNoConnection)
    /\ Failed("Instagram", ReasonNoConnection)
    /\ instagram
    /\ ~fbCalled
    /\ ~igCalled
    /\ pc = "done"

\* C8: a container whose status polls all return IN_PROGRESS is polled exactly
\* 20 times, each poll followed by one wait, then Instagram is recorded failed
\* with the timed-out reason and media_publish is never called.
C8_TimeoutAfterTwentyPolls ==
    (container.created /\ container.onlyInProgress) =>
        /\ container.polls <= 20
        /\ container.waits \in {container.polls - 1, container.polls}
        /\ container.publishes = 0
        /\ pc # "ig_publish"
        /\ container.reason # "open" =>
               /\ container.polls = 20
               /\ container.waits = 20
               /\ container.reason = ReasonIgTimedOut
               /\ Failed("Instagram", ReasonIgTimedOut)

C8_Witness ==
    /\ container.onlyInProgress
    /\ container.polls = 20
    /\ container.reason = ReasonIgTimedOut
    /\ pc = "loop"

\* C9: media_publish is called at most once per container, only after a status
\* poll of that container returned FINISHED, and never for a container that
\* failed (status ERROR, status-check error, attempts exhausted).
C9_PublishOnceAfterFinished ==
    /\ container.publishes <= 1
    /\ container.publishes = 1 => container.created /\ container.finished /\ ~container.failed
    /\ pc = "ig_publish" => container.publishes = 1

C9_Witness ==
    /\ container.publishes = 1
    /\ container.polls = 20
    /\ container.reason = "published"

\* C10: a status poll returning ERROR (the k-th, k in 1..20) ends the container
\* at once: no further poll, wait or media_publish, and Instagram is recorded
\* failed with the processing-failed reason, not the timed-out one.
C10_ErrorStatusFailsAtOnce ==
    container.errorAt > 0 =>
        /\ container.polls = container.errorAt
        /\ container.waits = container.errorAt - 1
        /\ container.publishes = 0
        /\ container.reason = ReasonIgProcessingFailed
        /\ pc \notin {"ig_status", "ig_wait", "ig_publish"}
        /\ Failed("Instagram", ReasonIgProcessingFailed)

C10_Witness ==
    /\ container.errorAt = 20
    /\ container.reason = ReasonIgProcessingFailed
    /\ pc = "loop"

\* C11 (as stated): a request for [Instagram] with a hosted https video, a
\* valid Instagram business-account id and no Facebook credentials at all is
\* answered with a Post whose platforms are [Instagram].
C11_InstagramOnlyWithoutFacebookPublishes ==
    ( /\ PublishAnswered
      /\ platforms = <<"Instagram">>
      /\ IsVideo(media)
      /\ instagram
      /\ ~facebook.pageId
      /\ ~facebook.pageAccessToken )
    => /\ response[1].hasPost
       /\ response[1].platforms = <<"Instagram">>

\* C11 (amended): the Instagram calls are authorised by the Facebook page access
\* token.  For [Instagram] with a hosted video and an Instagram account id:
\* without the page access token no Instagram call is issued and the answer is
\* the 400 error naming Instagram with 'Connection details not provided.';
\* with the token (a page id is not needed) the container is created from the
\* hosted URL, and the answer is either a Post with platforms [Instagram], whose
\* container was polled to FINISHED and published once, or the 400 error with
\* a reason of a remote Instagram step.
C11_InstagramOnlyVideoNeedsPageToken ==
    ( /\ PublishAnswered
      /\ platforms = <<"Instagram">>
      /\ IsVideo(media)
      /\ instagram )
    => /\ ~fbCalled
       /\ IF ~facebook.pageAccessToken
          THEN /\ ~igCalled
               /\ response[1].status = 400
               /\ ~response[1].hasPost
               /\ response[1].failed =
                      <<[platform |-> "Instagram", reason |-> ReasonNoConnection]>>
          ELSE /\ igCalled
               /\ \/ /\ response[1].status = 200
                     /\ response[1].hasPost
                     /\ response[1].platforms = <<"Instagram">>
                     /\ "Instagram" \in confirmed
                  \/ /\ response[1].status = 400
                     /\ ~response[1].hasPost
                     /\ Len(response[1].failed) = 1
                     /\ response[1].failed[1].platform = "Instagram"
                     /\ response[1].failed[1].reason \in
                            {ReasonIgContainerError, ReasonIgStatusError,
                             ReasonIgProcessingFailed, ReasonIgTimedOut,
                             ReasonIgPublishError, ReasonThrown}

C11_Witness ==
    /\ PublishAnswered
    /\ platforms = <<"Instagram">>
    /\ IsVideo(media)
    /\ instagram
    /\ ~facebook.pageId
    /\ facebook.pageAccessToken
    /\ response[1].hasPost
    /\ response[1].platforms = <<"Instagram">>

\* C12 (as stated): the id of a returned Post is platform-assigned whenever
\* at least one platform was published (Instagram alone included), and the
\* local 'post_<timestamp>' id only when none was.
C12_PlatformIdWheneverPublished ==
    (PublishAnswered /\ response[1].hasPost) =>
        (response[1].id # "local" <=> Len(response[1].platforms) > 0)

\* C12 (amended): the id of a returned Post is the id Facebook assigned (post_id
\* of the photo upload, id of the video upload) exactly when Facebook is among
\* the published platforms, and the local 'post_<timestamp>' id otherwise, also
\* when Instagram or YouTube were published.
C12_FacebookIdOrLocalId ==
    (PublishAnswered /\ response[1].hasPost) =>
        response[1].id = IF "Facebook" \in Range(response[1].platforms)
                         THEN (IF IsImage(media) THEN "post_id" ELSE "video_id")
                         ELSE "local"

C12_Witness ==
    /\ PublishAnswered
    /\ response[1].hasPost
    /\ response[1].platforms = <<"Instagram">>
    /\ "Instagram" \in confirmed
    /\ response[1].id = "local"

RECURSIVE IsSubSeq(_, _)
IsSubSeq(a, b) ==
    IF a = <<>> THEN TRUE
    ELSE IF b = <<>> THEN FALSE
    ELSE IF a[1] = b[1] THEN IsSubSeq(Tail(a), Tail(b))
    ELSE IsSubSeq(a, Tail(b))

RECURSIVE C13_Rendered(_, _)
C13_Rendered(failed, n) ==
    IF n = 0 THEN ""
    ELSE (IF n = 1 THEN "" ELSE C13_Rendered(failed, n - 1) \o ", ")
         \o failed[n].platform \o " (" \o failed[n].reason \o ")"

\* C13: the message of the aggregate error is the fixed prefix followed by one
\* entry '<platform> (<reason>)' per failed attempt of the request, joined by
\* ', ' in processing order; an attempt that succeeded has no entry.
C13_MessageListsEveryFailure ==
    (PublishAnswered /\ response[1].status = 400) =>
        /\ response[1].failed = failedToPublish
        /\ Len(failedToPublish) > 0
        /\ response[1].message =
               PublishErrorPrefix \o C13_Rendered(failedToPublish, Len(failedToPublish))
        /\ IsSubSeq([i \in DOMAIN failedToPublish |-> failedToPublish[i].platform],
                    orderedPlatforms)
        /\ \A t \in {"Facebook", "Instagram", "YouTube"} :
               CountFailed(t) = CountIn(orderedPlatforms, t) - CountIn(publishedTo, t)

C13_Witness ==
    /\ PublishAnswered
    /\ publishedTo = <<"Facebook">>
    /\ response[1].message =
           PublishErrorPrefix \o
           "Instagram (Connection details not provided.), YouTube (Not connected.)"

\* C14 (as stated): at the end of the platform loop every platform tag of the
\* request has exactly one recorded outcome: the published and the failed lists
\* are disjoint and together cover every requested tag, tags other than
\* Facebook, Instagram and YouTube included.
C14_EveryTagHasOneOutcome ==
    (pc = "timer" \/ PublishAnswered) =>
        LET failedTags == {failedToPublish[i].platform : i \in DOMAIN failedToPublish}
        IN  /\ Range(publishedTo) \cap failedTags = {}
            /\ Range(publishedTo) \cup failedTags = Range(platforms)

\* C15: when the media payload is neither a 'data:image' data URL nor an
\* 'https://' URL, no remote call is issued for Facebook or Instagram, and
\* every Facebook and Instagram entry the loop has passed is recorded failed
\* (missing credentials or invalid media), none published.
C15_UnsupportedMediaFailsWithoutCalls ==
    (media = "neither" /\ pc # "idle") =>
        /\ ~fbCalled
        /\ ~igCalled
        /\ inflight = "none"
        /\ pc \in {"loop", "timer", "done"}
        /\ \A t \in {"Facebook", "Instagram"} :
               /\ t \notin Range(publishedTo)
               /\ CountFailed(t) = CountProcessed(t)
        /\ \A i \in DOMAIN failedToPublish :
               /\ failedToPublish[i].platform = "Facebook" =>
                      failedToPublish[i].reason \in {ReasonNoConnection, ReasonFbBadMedia}
               /\ failedToPublish[i].platform = "Instagram" =>
                      failedToPublish[i].reason \in {ReasonNoConnection, ReasonIgBadMedia}

C15_Witness ==
    /\ media = "neither"
    /\ PublishAnswered
    /\ Failed("Facebook", ReasonFbBadMedia)
    /\ Failed("Instagram", ReasonIgBadMedia)

\* C16 (as stated): the outcomes of a publish request depend only on its own
\* inputs and remote responses, not on the requests interleaved with it: while
\* a publish request still has a YouTube entry to process, no step of another
\* request (a YouTube connect or disconnect) changes the connection state that
\* entry's outcome will be taken from.
C16_PendingOutcomeUntouchedByOthers ==
    [][ ( /\ pc \in {"loop", "fb_photos", "fb_full_picture", "fb_videos", "ig_media",
                     "ig_status", "ig_wait", "ig_publish"}
          /\ \E i \in idx..Len(orderedPlatforms) : orderedPlatforms[i] = "YouTube" )
        => YouTubeConnected(mockState') = YouTubeConnected(mockState) ]_vars

\* C17: a Facebook post made in a request is never rolled back: the only
\* remote calls of a publish request are the Facebook uploads, the full_picture
\* fetch and the Instagram container calls; a step that records a failure, and
\* the step that builds the response, issue no call at all and leave the list
\* of published platforms as it is.
C17_NoRollbackOfFacebookPost ==
    [][ /\ inflight' \in {"none"} \cup FacebookCalls \cup InstagramCalls
        /\ (pc # "done" /\ Len(failedToPublish') > Len(failedToPublish)) =>
               /\ inflight' = "none"
               /\ publishedTo' = publishedTo
               /\ facebookPostId' = facebookPostId
        /\ pc' \in {"timer", "done"} =>
               /\ inflight' = "none"
               /\ pc # "idle" => publishedTo' = publishedTo ]_vars

C17_Witness ==
    /\ PublishAnswered
    /\ "Facebook" \in confirmed
    /\ publishedTo = <<"Facebook">>
    /\ Failed("Instagram", ReasonIgPublishError)
    /\ response[1].status = 400

\* C18: the YouTube step records YouTube as published if and only if the mock
\* connection state is connected at the moment the step runs, and otherwise as
\* failed with 'Not connected.'; the step issues no remote call in either case.
C18_YouTubePublishedIffConnected ==
    [][ HandlerStepAt("YouTube") =>
            /\ inflight' = "none"
            /\ iterCalls' = 0
            /\ fbCalled' = fbCalled
            /\ igCalled' = igCalled
            /\ pc' = "loop"
            /\ idx' = idx + 1
            /\ IF mockState
               THEN /\ publishedTo' = Append(publishedTo, "YouTube")
                    /\ failedToPublish' = failedToPublish
               ELSE /\ publishedTo' = publishedTo
                    /\ failedToPublish' =
                           Append(failedToPublish,
                                  [platform |-> "YouTube", reason |-> ReasonNotConnected]) ]_vars

C18_Witness ==
    /\ pc = "loop"
    /\ "YouTube" \in Range(publishedTo)
    /\ Failed("YouTube", ReasonNotConnected)
    /\ ~fbCalled
    /\ ~igCalled

\* C19 (as stated): the caller of a publish request waiting in the Instagram
\* poll loop can abort it, and once it has, the request issues no further
\* status poll and no media_publish call.
C19_AbortedRequestStopsPolling ==
    [][ aborted => ~( /\ inflight' \in {"ig_status", "ig_publish"}
                      /\ inflight' # inflight ) ]_vars

\* C20: for a hosted-video post the Facebook attempt makes exactly one remote
\* call, the /videos upload, and never the photos upload or the full_picture
\* fetch; the Instagram container is created from the request's own video URL,
\* so with its credentials present Instagram goes on to the container create
\* whether Facebook was requested, published or failed, and never fails for the
\* missing Facebook photo.
C20_HostedVideoNeedsNoPublicUrlFetch ==
    media = "httpsUrl" =>
        /\ inflight \notin {"fb_photos", "fb_full_picture"}
        /\ pc \notin {"fb_photos", "fb_full_picture"}
        /\ fbAttempt.picture = "none"
        /\ ~facebookPhotoUrl
        /\ pc = "fb_videos" => iterCalls = 1 /\ inflight = "fb_videos"
        /\ (pc = "loop" /\ idx > 1 /\ orderedPlatforms[idx - 1] = "Facebook") =>
               iterCalls = IF FbCredsMissing(facebook) THEN 0 ELSE 1
        /\ container.created => container.url = "imageUrl"
        /\ ~Failed("Instagram", ReasonIgDependency)
        /\ ~Failed("Instagram", ReasonIgBadMedia)
        /\ (instagram /\ facebook.pageAccessToken /\ CountProcessed("Instagram") > 0) =>
               /\ igCalled
               /\ ~Failed("Instagram", ReasonNoConnection)

C20_Witness ==
    /\ media = "httpsUrl"
    /\ Failed("Facebook", ReasonFbVideoError)
    /\ publishedTo = <<"Instagram">>
    /\ container.url = "imageUrl"
    /\ container.reason = "published"

\* C21: when Facebook is requested and every requested platform (each of them
\* Facebook, Instagram or YouTube) succeeds, the returned Post has the id
\* Facebook returned (post_id of the photo upload, id of the video upload) and
\* its platforms are the requested ones in processing order, Facebook first.
C21_FacebookIdAndFacebookFirst ==
    ( /\ PublishAnswered
      /\ response[1].hasPost
      /\ "Facebook" \in Range(platforms)
      /\ "Other" \notin Range(platforms) )
    => /\ "Facebook" \in confirmed
       /\ response[1].id = IF IsImage(media) THEN "post_id" ELSE "video_id"
       /\ response[1].id = facebookPostId
       /\ response[1].platforms = orderedPlatforms
       /\ response[1].platforms[1] = "Facebook"
       /\ \A t \in PlatformTags :
              CountIn(response[1].platforms, t) = CountIn(platforms, t)

C21_Witness ==
    /\ PublishAnswered
    /\ response[1].hasPost
    /\ platforms = <<"YouTube", "Instagram", "Facebook">>
    /\ response[1].platforms[1] = "Facebook"
    /\ response[1].id = "post_id"

\* C22: a publish request that passed the required-field check sends exactly
\* one response, the 400 aggregate error or the 200 Post: none before the
\* handler has ended, one when it has, never two; and, every remote call
\* returning, it eventually sends it, the poll loop being bounded: no request
\* stays for ever between its required-field check and its response.
C22_ExactlyOneResponseEventually ==
    /\ [](Len(response) = IF pc = "done" THEN 1 ELSE 0)
    /\ [](PublishAnswered =>
              /\ response[1].status \in {200, 400}
              /\ response[1].status = 200 <=> response[1].hasPost)
    /\ []<>(pc = "idle" \/ (pc = "done" /\ Len(response) = 1))

C22_Witness ==
    /\ PublishAnswered
    /\ Failed("Instagram", ReasonIgTimedOut)
    /\ response[1].status = 400

\* C29: the delete endpoint never issues a remote DELETE for an id beginning
\* with 'post_' and answers 400 for it; when the platform reports the post as
\* already deleted (error code 100, subcode 33) the answer is success, so a
\* second delete of a real post the first one deleted succeeds as well; every
\* other platform error is answered 500.
C29_NoRemoteDeleteForLocalIdAndIdempotent ==
    LET local(id) == /\ Len(id) >= 5
                     /\ <<id[1], id[2], id[3], id[4], id[5]>> = <<"p", "o", "s", "t", "_">>
    IN  /\ \A id \in deleteIssued : ~local(id)
        /\ delPc = "fetch" => ~local(postId) /\ postId \in deleteIssued
        /\ \A i \in DOMAIN deleteAnswers :
               LET a == deleteAnswers[i]
               IN  /\ local(a.postId) => a.status = 400 /\ a.report.kind = "none"
                   /\ (a.report.kind = "error" /\ a.report.code = 100
                       /\ a.report.subcode = 33) => a.status = 200 /\ a.success
                   /\ (a.report.kind = "error" /\ ~(a.report.code = 100
                       /\ a.report.subcode = 33)) => a.status = 500 /\ ~a.success
                   /\ a.report.kind = "success" => a.status = 200 /\ a.success
        /\ \A i, j \in DOMAIN deleteAnswers :
               ( /\ i < j
                 /\ deleteAnswers[i].postId = deleteAnswers[j].postId
                 /\ deleteAnswers[i].report.kind = "success"
                 /\ deleteAnswers[j].report = [kind |-> "error", code |-> 100, subcode |-> 33] )
               => deleteAnswers[j].status = 200 /\ deleteAnswers[j].success

C29_Witness ==
    /\ Len(deleteAnswers) = 2
    /\ deleteAnswers[1].postId = <<"1", "_", "p", "o", "s", "t", "_">>
    /\ deleteAnswers[2].postId = deleteAnswers[1].postId
    /\ deleteAnswers[1].report.kind = "success"
    /\ deleteAnswers[2].report.kind = "error"
    /\ deleteAnswers[1].success
    /\ deleteAnswers[2].success

\* ------------------------------------------- client: the connection status
\* The body of GET /api/connections and of DELETE /api/connections/:platform:
\* Facebook and Instagram are always reported false, YouTube from mockState.
ServerConnections(youtube) == [p \in ClientPlatforms |-> p = "YouTube" /\ youtube]

\* setConnections(status) and setConnectionDetails(details) of one handler,
\* followed by App's effect, which empties the details once Facebook is not
\* connected.
SetConnections(status, details) ==
    /\ connections' = status
    /\ connectionDetails' = IF ~status["Facebook"] THEN NoDetails ELSE details

\* connectFacebook(accessToken) resolved: the status and the details of the
\* answer of POST /api/connect/facebook replace the client's.
ConnectFacebookResolved(ig) ==
    SetConnections([ServerConnections(mockState) EXCEPT !["Facebook"] = TRUE,
                                                        !["Instagram"] = ig],
                   [facebook |-> TRUE, instagram |-> ig])

\* App's mount effect fetchInitialConnections: getConnections() settles.
FetchInitialConnections ==
    /\ "getConnections" \in startup
    /\ startup' = startup \ {"getConnections"}
    /\ \E ok \in BOOLEAN :
          IF ok THEN SetConnections(ServerConnections(mockState), connectionDetails)
          ELSE UNCHANGED <<connections, connectionDetails>>
    /\ UNCHANGED <<authPopup, composerVars, dashboardVars, deleteVars, mockState,
                   requestState>>

\* statusChangeCallback, called once by FB.getLoginStatus when the SDK is up.
StatusChangeCallback ==
    /\ "getLoginStatus" \in startup
    /\ startup' = startup \ {"getLoginStatus"}
    /\ \E status \in {"connected", "unknown"}, ok \in BOOLEAN, ig \in BOOLEAN :
          IF status = "connected"
          THEN IF ok THEN ConnectFacebookResolved(ig)
               ELSE UNCHANGED <<connections, connectionDetails>>
          ELSE SetConnections([connections EXCEPT !["Facebook"] = FALSE,
                                                  !["Instagram"] = FALSE],
                              connectionDetails)
    /\ UNCHANGED <<authPopup, composerVars, dashboardVars, deleteVars, mockState,
                   requestState>>

\* handleConnect(Facebook | Instagram): FB.login answered "connected" and
\* connectFacebook resolved.
HandleConnectFacebook ==
    /\ \E ig \in BOOLEAN : ConnectFacebookResolved(ig)
    /\ UNCHANGED <<authPopup, startup, composerVars, dashboardVars, deleteVars, mockState,
                   requestState>>

\* The platforms connected through the mock consent popup.
MockPlatforms == {"YouTube"}

\* handleConnect(platform) for the mock flow: the consent popup opens.
HandleConnectMock ==
    /\ authPopup = NoPopup
    /\ \E p \in MockPlatforms :
          /\ ~connections[p]
          /\ authPopup' = [stage |-> "open", platform |-> p]
    /\ UNCHANGED <<connections, connectionDetails, startup, composerVars, dashboardVars,
                   deleteVars, mockState, requestState>>

\* The popup posts the credentials to /auth/:platform/callback: valid ones
\* connect YouTube and the page sends 'oauth-complete'; otherwise the consent
\* page is shown again, or the user closes the popup.
PopupSubmits ==
    /\ authPopup.stage = "open"
    /\ \E outcome \in {"valid", "invalid", "closed"} :
          /\ mockState' = IF outcome = "valid" /\ authPopup.platform = "YouTube"
                          THEN TRUE ELSE mockState
          /\ authPopup' = IF outcome = "valid"
                          THEN [authPopup EXCEPT !.stage = "message"]
                          ELSE IF outcome = "closed" THEN NoPopup ELSE authPopup
    /\ UNCHANGED <<connections, connectionDetails, startup, composerVars, dashboardVars,
                   deleteVars, requestState>>

\* handleAuthMessage on a successful 'oauth-complete': the status answered by
\* getConnections() replaces the client's.
HandleAuthMessage ==
    /\ authPopup.stage = "message"
    /\ authPopup' = NoPopup
    /\ \E ok \in BOOLEAN :
          IF ok THEN SetConnections(ServerConnections(mockState), connectionDetails)
          ELSE UNCHANGED <<connections, connectionDetails>>
    /\ UNCHANGED <<startup, composerVars, dashboardVars, deleteVars, mockState,
                   requestState>>

\* handleDisconnect(platform): the server forgets YouTube when it is the
\* platform named, and the status it answers replaces the client's.
Disconnect(p) ==
    /\ connections[p]
    /\ mockState' = IF p = "YouTube" THEN FALSE ELSE mockState
    /\ SetConnections(ServerConnections(mockState'), connectionDetails)
    /\ UNCHANGED <<authPopup, startup, composerVars, dashboardVars, deleteVars,
                   requestState>>

\* The Disconnect button of a connected platform.
HandleDisconnect ==
    /\ \E p \in ClientPlatforms : connections[p]
    /\ \E p \in ClientPlatforms : Disconnect(p)

\* ------------------------------------------------ client: deleting posts
\* The posts IndexedDB (or MOCK_POSTS) can hand to the dashboard: a local
\* post, two posts published to Facebook under the platform's id, a post
\* with a platform id that was not published to Facebook, and a video
\* published to Instagram alone, which has a local id.  The model keeps
\* the set of the list's elements; the handlers only filter the list.
LocalPost == [id |-> <<"p", "o", "s", "t", "_", "1">>, platforms |-> {"Facebook"}]
RealPostA == [id |-> <<"1", "_", "2">>, platforms |-> {"Facebook", "Instagram"}]
RealPostB == [id |-> <<"1", "_", "3">>, platforms |-> {"Facebook"}]
OtherPost == [id |-> <<"7">>, platforms |-> {"YouTube"}]
InstagramPost == [id |-> <<"p", "o", "s", "t", "_", "2">>, platforms |-> {"Instagram"}]
StoredPosts == {LocalPost, RealPostA, RealPostB, OtherPost, InstagramPost}

ErrSingleNoDetails == [kind |-> "Cannot delete post from Facebook: Connection details are missing.",
                       failed |-> 0, of |-> 0]
ErrBulkNoDetails == [kind |-> "Cannot delete posts from Facebook: Connection details are missing.",
                     failed |-> 0, of |-> 0]
\* The message handleResponse throws for an answer that is not ok.
ErrRemote == [kind |-> "remote", failed |-> 0, of |-> 0]
\* `Failed to delete ${failed} of ${of} post(s) from Facebook. ...`
ErrBulkFailed(failed, of) == [kind |-> "Failed to delete", failed |-> failed, of |-> of]

\* loadInitialData: the stored posts become the dashboard's list.
LoadInitialData ==
    /\ "loadInitialData" \in startup
    /\ startup' = startup \ {"loadInitialData"}
    /\ \E stored \in SUBSET StoredPosts : posts' = stored
    /\ UNCHANGED <<connections, connectionDetails, authPopup, globalError, deleteRuns,
                   composerVars, deleteVars, mockState, requestState>>

\* `!postToDelete.id.startsWith('post_') && postToDelete.platforms.includes(Platform.Facebook)`
NeedsRemote(post) == ~StartsWith(post.id, PostPrefix) /\ "Facebook" \in post.platforms

\* deletePost after its await: the post is filtered out when
\* deletePostOnPlatform resolved; the catch block leaves the list alone.
PostsAfterDeleteAnyway(ok, post) == posts \ {post}
PostsAfterDelete(ok, post) == IF ok THEN posts \ {post} ELSE posts

\* deletePosts after Promise.allSettled: every selected post is filtered out.
PostsAfterBulkKeepsFailed(selected, failed) == posts \ (selected \ failed)
PostsAfterBulk(selected, failed) == posts \ selected

\* At most MaxDeleteRuns deletions, all different, are suspended at a time.
CanAwait(run) == Cardinality(deleteRuns) < MaxDeleteRuns /\ run \notin deleteRuns

\* deletePost(postId) up to its await, or to its end when nothing is awaited.
DeletePostBegins(post) ==
    /\ post \in posts
    /\ IF NeedsRemote(post)
       THEN IF ~connectionDetails.facebook
            THEN /\ globalError' = ErrSingleNoDetails
                 /\ UNCHANGED <<posts, deleteRuns>>
            ELSE /\ CanAwait([kind |-> "single", selected |-> {post}, real |-> {post}])
                 /\ globalError' = NoError
                 /\ deleteRuns' = deleteRuns \cup {[kind |-> "single", selected |-> {post},
                                                    real |-> {post}]}
                 /\ UNCHANGED posts
       ELSE /\ globalError' = NoError
            /\ posts' = posts \ {post}
            /\ UNCHANGED deleteRuns
    /\ UNCHANGED <<connectionVars, composerVars, deleteVars, mockState, requestState>>

\* deletePost resumes: deletePostOnPlatform resolved (ok) or rejected.
DeletePostSettles(run, ok) ==
    /\ run \in deleteRuns
    /\ run.kind = "single"
    /\ deleteRuns' = deleteRuns \ {run}
    /\ \E post \in run.selected :
          /\ posts' = PostsAfterDelete(ok, post)
          /\ globalError' = IF ok THEN globalError ELSE ErrRemote
    /\ UNCHANGED <<connectionVars, composerVars, deleteVars, mockState, requestState>>

\* deletePosts(postIds) up to its await, or to its end when it throws first
\* or has no token to call the platform with.
DeletePostsBegins(selected) ==
    /\ selected # {}
    /\ selected \subseteq posts
    /\ LET real == {post \in selected : NeedsRemote(post)}
       IN  IF real # {} /\ ~connectionDetails.facebook
           THEN /\ globalError' = ErrBulkNoDetails
                /\ UNCHANGED <<posts, deleteRuns>>
           ELSE IF connectionDetails.facebook
           THEN /\ CanAwait([kind |-> "bulk", selected |-> selected, real |-> real])
                /\ globalError' = NoError
                /\ deleteRuns' = deleteRuns \cup {[kind |-> "bulk", selected |-> selected,
                                                   real |-> real]}
                /\ UNCHANGED posts
           ELSE /\ globalError' = NoError
                /\ posts' = PostsAfterBulk(selected, {})
                /\ UNCHANGED deleteRuns
    /\ UNCHANGED <<connectionVars, composerVars, deleteVars, mockState, requestState>>

\* deletePosts resumes: every remote deletion has settled, `failed` are the
\* rejected ones.
DeletePostsSettle(run, failed) ==
    /\ run \in deleteRuns
    /\ run.kind = "bulk"
    /\ failed \subseteq run.real
    /\ deleteRuns' = deleteRuns \ {run}
    /\ posts' = PostsAfterBulk(run.selected, failed)
    /\ globalError' = IF failed # {}
                      THEN ErrBulkFailed(Cardinality(failed), Cardinality(run.real))
                      ELSE globalError
    /\ UNCHANGED <<connectionVars, composerVars, deleteVars, mockState, requestState>>

\* The dashboard's delete button of one post.
DeletePost ==
    /\ posts # {}
    /\ \E post \in posts : DeletePostBegins(post)

DeletePostResumes ==
    /\ deleteRuns # {}
    /\ \E run \in deleteRuns, ok \in BOOLEAN : DeletePostSettles(run, ok)

\* The dashboard's bulk delete of the ticked posts.
DeletePosts ==
    /\ posts # {}
    /\ \E selected \in SUBSET posts : DeletePostsBegins(selected)

DeletePostsResume ==
    /\ deleteRuns # {}
    /\ \E run \in deleteRuns : \E failed \in SUBSET run.real : DeletePostsSettle(run, failed)

\* ErrorModal's onClose
CloseErrorModal ==
    /\ globalError # NoError
    /\ globalError' = NoError
    /\ UNCHANGED <<posts, deleteRuns, connectionVars, composerVars, deleteVars, mockState,
                   requestState>>

\* App with the dashboard in front: the posts, their deletion, and the
\* Facebook connection the deletions take the page access token from.
NextApp ==
    \/ FetchInitialConnections
    \/ StatusChangeCallback
    \/ HandleConnectFacebook
    \/ HandleDisconnect
    \/ LoadInitialData
    \/ DeletePost
    \/ DeletePostResumes
    \/ DeletePosts
    \/ DeletePostsResume
    \/ CloseErrorModal

SpecApp == Init /\ [][NextApp]_vars

\* ConnectionsView in front: the connection handlers and App's mount effects.
NextConnections ==
    \/ FetchInitialConnections
    \/ StatusChangeCallback
    \/ HandleConnectFacebook
    \/ HandleConnectMock
    \/ PopupSubmits
    \/ HandleAuthMessage
    \/ HandleDisconnect

SpecConnections == Init /\ [][NextConnections]_vars

RemoteApplies(post) == post \in {RealPostA, RealPostB}

\* C26: deleting a single post removes it from the list at once when the
\* remote deletion does not apply (local id, or not published to Facebook),
\* and otherwise only when the remote deletion succeeded; when the page access
\* token is missing or the remote deletion failed the list is unchanged and
\* the global error is set.
C26_SingleDeleteRemovesOnlyOnSuccess ==
    [][\A post \in StoredPosts :
          /\ DeletePostBegins(post) =>
                /\ (~RemoteApplies(post)) => posts' = posts \ {post}
                /\ RemoteApplies(post) => posts' = posts
                /\ (RemoteApplies(post) /\ ~connectionDetails.facebook) =>
                       /\ globalError' # NoError
                       /\ deleteRuns' = deleteRuns
          /\ \A run \in deleteRuns, ok \in BOOLEAN :
                (DeletePostSettles(run, ok) /\ post \in run.selected) =>
                    IF ok THEN posts' = posts \ {post}
                    ELSE posts' = posts /\ globalError' # NoError]_vars

\* A remote deletion failed and the post is still listed under the error.
C26_Witness ==
    /\ globalError = ErrRemote
    /\ RealPostA \in posts
    /\ deleteRuns = {}

\* C27: a bulk deletion removes every selected post, also when remote
\* deletions failed, and then sets the error counting the failures; it
\* removes nothing and sets the missing-details error when a selected post
\* needs the remote deletion and the page access token is missing.
C27_BulkDeleteRemovesAllUnlessNoToken ==
    [][/\ \A selected \in SUBSET StoredPosts :
             DeletePostsBegins(selected) =>
                 IF (\E post \in selected : RemoteApplies(post)) /\ ~connectionDetails.facebook
                 THEN /\ posts' = posts
                      /\ globalError' = ErrBulkNoDetails
                      /\ deleteRuns' = deleteRuns
                 ELSE IF connectionDetails.facebook
                 THEN posts' = posts
                 ELSE posts' = posts \ selected
       /\ \A run \in deleteRuns : \A failed \in SUBSET run.real :
             DeletePostsSettle(run, failed) =>
                 /\ posts' = posts \ run.selected
                 /\ failed # {} =>
                        globalError' = ErrBulkFailed(Cardinality(failed),
                                                     Cardinality(run.real))]_vars

\* One of two remote deletions failed and both posts left the list.
C27_Witness ==
    /\ globalError = ErrBulkFailed(1, 2)
    /\ "loadInitialData" \notin startup
    /\ posts \cap {RealPostA, RealPostB} = {}
    /\ deleteRuns = {}

\* ------------------------------------------------- client: the composer
\* An asset the removal timer has filtered out of `assets`; ids are unique
\* (`asset_${Date.now()}`), so a removed id never comes back.
RemovedAsset == [status |-> "removed", platforms |-> {}, file |-> FALSE]
InList(asset) == asset.status \notin {"absent", "removed"}

\* No handlePublish invocation.
NoRun == [asset |-> "none", stage |-> "none", platforms |-> {}, bulk |-> FALSE]

\* The props and state a handler created in the current render closes over.
CurrentRender == [assets |-> assets, connections |-> connections]

\* updateAsset(id, {status}): `prev.map`, so an id that is not listed changes nothing.
UpdateAsset(list, a, status) ==
    IF InList(list[a]) THEN [list EXCEPT ![a].status = status] ELSE list

\* togglePlatform: the new platform set of the asset.
ToggledPlatformsAlone(current, p) == IF p \in current THEN current \ {p} ELSE current \cup {p}
ToggledPlatforms(current, p) ==
    IF p \in current
    THEN IF p = "Facebook" THEN current \ {"Facebook", "Instagram"} ELSE current \ {p}
    ELSE IF p = "Instagram" THEN current \cup {"Instagram", "Facebook"} ELSE current \cup {p}

\* `isBusy || asset.status === 'error' || asset.platforms.length === 0 || !asset.file`
IsPublishDisabled(asset) ==
    \/ asset.status \in {"publishing", "published"}
    \/ asset.status = "error"
    \/ asset.platforms = {}
    \/ ~asset.file

\* The checks handlePublish makes, on the asset and the connections of the
\* render it was created in, before it marks the asset 'publishing'.
PublishCheck(asset, status) ==
    IF ~InList(asset) \/ ~asset.file THEN "noMedia"
    ELSE IF asset.status = "error" THEN "error"
    ELSE IF \E p \in asset.platforms : ~status[p] THEN "unconnected"
    ELSE "ok"

\* The invocation handlePublish(a) leaves suspended at `await toBase64`.
NewRun(a, render, bulk) ==
    [asset |-> a, stage |-> "toBase64", platforms |-> render.assets[a].platforms,
     bulk |-> bulk]

\* handleBulkPublish's loop from the head of `queue` up to its next await
\* that hands control back: assets the render shows as publishing or
\* published (or does not show) are skipped, a handlePublish that fails its
\* checks marks the asset 'error' and the loop goes on, one that passes them
\* marks it 'publishing' and the loop waits for it.
RECURSIVE BulkAdvance(_, _, _)
BulkAdvance(queue, list, render) ==
    IF queue = <<>>
    THEN [assets |-> list, queue |-> <<>>, run |-> NoRun, done |-> TRUE]
    ELSE LET a == Head(queue)
             asset == render.assets[a]
         IN  IF ~InList(asset) \/ asset.status \in {"publishing", "published"}
             THEN BulkAdvance(Tail(queue), list, render)
             ELSE IF PublishCheck(asset, render.connections) # "ok"
             THEN BulkAdvance(Tail(queue), UpdateAsset(list, a, "error"), render)
             ELSE [assets |-> UpdateAsset(list, a, "publishing"), queue |-> Tail(queue),
                   run |-> NewRun(a, render, TRUE), done |-> FALSE]

\* The part of a render the loop can still read: the assets left in `queue`
\* and the connection status.
StillRead(render, queue) ==
    [render EXCEPT !.assets = [a \in ComposerAssets |->
                                  IF \E i \in DOMAIN queue : queue[i] = a
                                  THEN render.assets[a] ELSE NoAsset]]

\* The state the bulk loop leaves behind when it advances from `queue`.
BulkContinues(queue, list, render, runs) ==
    LET result == BulkAdvance(queue, list, render)
    IN  /\ assets' = result.assets
        /\ bulkQueue' = result.queue
        /\ publishRuns' = IF result.done THEN runs ELSE runs \cup {result.run}
        /\ isBulkPublishing' = ~result.done
        /\ bulkClosure' = IF result.done THEN NoClosure
                          ELSE StillRead(render, result.queue)

\* The orders Array.from(selectedAssets) can have.
Orders(selected) ==
    {order \in UNION {[1..n -> selected] : n \in {Cardinality(selected)}} :
        \A i, j \in DOMAIN order : i # j => order[i] # order[j]}

\* A file is dropped on the composer, or the composer is opened on a post or
\* an idea (then it is the first asset of the fresh composer).
AddAsset ==
    /\ \E a \in ComposerAssets :
          /\ assets[a].status = "absent"
          /\ \E kind \in {"file", "tooLarge", "post", "idea"},
                seed \in {post.platforms : post \in StoredPosts} \cup {{}} :
                /\ kind \in {"post", "idea"} => \A b \in ComposerAssets : assets[b].status = "absent"
                /\ kind # "post" => seed = {}
                /\ assets' = [assets EXCEPT ![a] =
                      IF kind = "file"
                      THEN [status |-> "idle", platforms |-> {"Facebook"}, file |-> TRUE]
                      ELSE IF kind = "tooLarge"
                      THEN [status |-> "error", platforms |-> {}, file |-> FALSE]
                      ELSE IF kind = "post"
                      THEN [status |-> "idle", platforms |-> seed, file |-> FALSE]
                      ELSE [status |-> "idle", platforms |-> {"Facebook"}, file |-> FALSE]]
    /\ UNCHANGED <<selectedAssets, isBulkPublishing, bulkClosure, bulkQueue, publishRuns,
                   removalTimers, connectionVars, dashboardVars, deleteVars,
                   mockState, requestState>>

\* processFile(file, existingAssetId): the media of a listed asset that is
\* not being published is replaced.
ReplaceMedia ==
    /\ \E a \in ComposerAssets, tooLarge \in BOOLEAN :
          /\ InList(assets[a])
          /\ assets[a].status \notin {"publishing", "published"}
          /\ assets' = [assets EXCEPT ![a] =
                IF tooLarge THEN [status |-> "error", platforms |-> {}, file |-> FALSE]
                ELSE [@ EXCEPT !.status = "idle", !.file = TRUE]]
    /\ UNCHANGED <<selectedAssets, isBulkPublishing, bulkClosure, bulkQueue, publishRuns,
                   removalTimers, connectionVars, dashboardVars, deleteVars,
                   mockState, requestState>>

\* togglePlatform(assetId, platform)
Toggle(a, p) ==
    /\ InList(assets[a])
    /\ assets' = [assets EXCEPT ![a].platforms = ToggledPlatforms(@, p), ![a].status = "idle"]
    /\ UNCHANGED <<selectedAssets, isBulkPublishing, bulkClosure, bulkQueue, publishRuns,
                   removalTimers, connectionVars, dashboardVars, deleteVars,
                   mockState, requestState>>

TogglePlatform ==
    /\ \E a \in ComposerAssets : InList(assets[a])
    /\ \E a \in ComposerAssets, p \in ClientPlatforms : Toggle(a, p)

\* handleToggleSelect: the checkbox, shown unless the asset is 'published'.
HandleToggleSelect ==
    /\ \E a \in ComposerAssets :
          /\ InList(assets[a])
          /\ assets[a].status # "published"
          /\ selectedAssets' = IF a \in selectedAssets THEN selectedAssets \ {a}
                               ELSE selectedAssets \cup {a}
    /\ UNCHANGED <<assets, isBulkPublishing, bulkClosure, bulkQueue, publishRuns,
                   removalTimers, connectionVars, dashboardVars, deleteVars,
                   mockState, requestState>>

\* At most MaxPublishRuns invocations of handlePublish, all different, are
\* suspended at a time.
CanSuspend(run) == Cardinality(publishRuns) < MaxPublishRuns /\ run \notin publishRuns

\* The 'Publish Asset' button: handlePublish(asset.id) of the current render,
\* up to `await toBase64`.
ClickPublish(a) ==
    /\ InList(assets[a])
    /\ ~IsPublishDisabled(assets[a])
    /\ IF PublishCheck(assets[a], connections) = "ok"
       THEN /\ CanSuspend(NewRun(a, CurrentRender, FALSE))
            /\ assets' = UpdateAsset(assets, a, "publishing")
            /\ publishRuns' = publishRuns \cup {NewRun(a, CurrentRender, FALSE)}
       ELSE /\ assets' = UpdateAsset(assets, a, "error")
            /\ UNCHANGED publishRuns
    /\ UNCHANGED <<selectedAssets, isBulkPublishing, bulkClosure, bulkQueue, removalTimers,
                   connectionVars, dashboardVars, deleteVars, mockState,
                   requestState>>

HandlePublish ==
    /\ \E a \in ComposerAssets : InList(assets[a])
    /\ \E a \in ComposerAssets : ClickPublish(a)

\* The 'Bulk Publish' button: handleBulkPublish up to its first await.
HandleBulkPublish ==
    /\ ~isBulkPublishing
    /\ Cardinality(publishRuns) < MaxPublishRuns
    /\ selectedAssets # {}
    /\ \E order \in Orders(selectedAssets) :
          BulkContinues(order, assets, CurrentRender, publishRuns)
    /\ UNCHANGED <<selectedAssets, removalTimers, connectionVars, dashboardVars,
                   deleteVars, mockState, requestState>>

\* What is left to do when the invocation `run` has returned: a single
\* publish is over, the bulk loop goes on with its next asset.
RunReturned(run, list) ==
    IF run.bulk
    THEN BulkContinues(bulkQueue, list, bulkClosure, publishRuns \ {run})
    ELSE /\ assets' = list
         /\ publishRuns' = publishRuns \ {run}
         /\ UNCHANGED <<isBulkPublishing, bulkClosure, bulkQueue>>

\* `await toBase64(asset.file)` settles: publishPost is called with the
\* platforms and the connection details of the closure, or the asset is
\* marked 'error'.
ToBase64Settles ==
    /\ publishRuns # {}
    /\ \E run \in publishRuns, ok \in BOOLEAN :
          /\ run.stage = "toBase64"
          /\ IF ok
             THEN /\ [run EXCEPT !.stage = "publishPost"] \notin publishRuns
                  /\ publishRuns' = (publishRuns \ {run}) \cup
                                        {[run EXCEPT !.stage = "publishPost"]}
                  /\ UNCHANGED <<assets, isBulkPublishing, bulkClosure, bulkQueue>>
             ELSE RunReturned(run, UpdateAsset(assets, run.asset, "error"))
    /\ UNCHANGED <<selectedAssets, removalTimers, connectionVars, dashboardVars, deleteVars,
                   mockState, requestState>>

\* The Post the server answers for the platforms sent: the Facebook id
\* when Facebook is among them, a local id otherwise.
PublishedPost(sentTo) ==
    [id |-> IF "Facebook" \in sentTo THEN RealPostA.id ELSE LocalPost.id,
     platforms |-> sentTo]

\* `await publishPost(...)` settles: the Post is handed to onPostPublished,
\* the asset marked 'published' and its removal timer armed; or the asset is
\* marked 'error'.
PublishPostSettles ==
    /\ publishRuns # {}
    /\ \E run \in publishRuns, ok \in BOOLEAN :
          /\ run.stage = "publishPost"
          /\ IF ok
             THEN /\ posts' = posts \cup {PublishedPost(run.platforms)}
                  /\ removalTimers' = removalTimers \cup {run.asset}
                  /\ RunReturned(run, UpdateAsset(assets, run.asset, "published"))
             ELSE /\ RunReturned(run, UpdateAsset(assets, run.asset, "error"))
                  /\ UNCHANGED <<posts, removalTimers>>
    /\ UNCHANGED <<selectedAssets, globalError, deleteRuns, connectionVars,
                   deleteVars, mockState, requestState>>

\* The 2 s timer after a publication: the asset leaves the list and the selection.
RemovalTimerFires ==
    /\ removalTimers # {}
    /\ \E a \in removalTimers :
          /\ removalTimers' = removalTimers \ {a}
          /\ assets' = [assets EXCEPT ![a] = IF InList(@) THEN RemovedAsset ELSE @]
          /\ selectedAssets' = selectedAssets \ {a}
    /\ UNCHANGED <<isBulkPublishing, bulkClosure, bulkQueue, publishRuns, connectionVars, dashboardVars, deleteVars, mockState, requestState>>

\* App with the composer in front: publishing assets one by one and in bulk,
\* and App's two mount effects that answer later.
NextComposer ==
    \/ AddAsset
    \/ ReplaceMedia
    \/ HandleToggleSelect
    \/ HandlePublish
    \/ HandleBulkPublish
    \/ ToBase64Settles
    \/ PublishPostSettles
    \/ RemovalTimerFires
    \/ FetchInitialConnections
    \/ StatusChangeCallback

SpecComposer == Init /\ [][NextComposer]_vars

\* The composer while assets are edited: media, platform buttons, checkboxes.
NextPlatforms ==
    \/ AddAsset
    \/ ReplaceMedia
    \/ TogglePlatform
    \/ HandleToggleSelect

SpecPlatforms == Init /\ [][NextPlatforms]_vars

\* Instagram is selected only together with Facebook.
InstagramWithFacebook(asset) ==
    "Instagram" \in asset.platforms => "Facebook" \in asset.platforms

\* C25: no step of the composer makes a listed asset that holds Instagram
\* only together with Facebook hold Instagram without Facebook; toggling
\* Instagram on also selects Facebook, and toggling Facebook off also
\* deselects Instagram.
C25_InstagramOnlyWithFacebook ==
    [][\A a \in ComposerAssets :
          /\ (InList(assets[a]) /\ InstagramWithFacebook(assets[a])) =>
                 InstagramWithFacebook(assets'[a])
          /\ (Toggle(a, "Instagram") /\ "Instagram" \notin assets[a].platforms) =>
                 {"Instagram", "Facebook"} \subseteq assets'[a].platforms
          /\ (Toggle(a, "Facebook") /\ "Facebook" \in assets[a].platforms) =>
                 assets'[a].platforms \cap {"Instagram", "Facebook"} = {}]_vars

\* Both assets hold Facebook and Instagram with a file: at most one of them
\* was opened from a post, the other got Instagram from its button.
C25_Witness ==
    \A a \in ComposerAssets :
        /\ assets[a].file
        /\ assets[a].platforms = {"Facebook", "Instagram"}

\* C23 (as stated): publishPost is never called for an asset while an
\* earlier call for the same asset is still awaited or has already published
\* it, whatever the interleaving of the bulk loop and the single buttons.
C23_AtMostOneSubmissionPerPublication ==
    [][\A run \in publishRuns' \ publishRuns :
          run.stage = "publishPost" =>
              /\ ~\E earlier \in publishRuns :
                     earlier.asset = run.asset /\ earlier.stage = "publishPost"
              /\ run.asset \notin removalTimers
              /\ assets[run.asset].status # "published"]_vars

\* C28 (as stated): publishPost is called only with every platform of the
\* submission connected in the client's connection status and with media; a
\* publish that finds a platform unconnected or no media marks the asset
\* 'error' and not 'publishing'; an asset becomes 'published' only in the
\* step in which its publishPost call returned.
C28_PublishOnlyConnectedWithMedia ==
    [][/\ \A run \in publishRuns' \ publishRuns :
             run.stage = "publishPost" =>
                 /\ \A p \in run.platforms : connections[p]
                 /\ assets[run.asset].file
       /\ \A a \in ComposerAssets :
             /\ (ClickPublish(a) /\ PublishCheck(assets[a], connections) # "ok") =>
                    assets'[a].status = "error"
             /\ (assets'[a].status = "published" /\ assets[a].status # "published") =>
                    \E run \in publishRuns \ publishRuns' :
                        run.asset = a /\ run.stage = "publishPost"]_vars


====
